---- MODULE Spec2Model ----
(***************************************************************************)
(* A model of click-async-plugins: the ITC hub (click_async_plugins/itc.py)*)
(* and the plugin lifecycle supervisor (click_async_plugins/util.py).      *)
(*                                                                         *)
(* Spec      : the ITC hub with two update generators created with the     *)
(*             default timeout and at_most_every, and the consumers that   *)
(*             pull, close or cancel them.                                 *)
(* TimedSpec : the ITC hub with one update generator, every combination of *)
(*             timeout and at_most_every, and the clock.                   *)
(* SupSpec   : run_plugins over a list of plugin factories: setup, the     *)
(*             TaskGroup of run_tasks, and the unwinding of the exit stack.*)
(* E2ESpec   : the tasks of countdown and echo (demo.py) as the two units  *)
(*             of run_tasks, on the event loop.                            *)
(* BroadcastSpec : the ITC hub with two update generators on one key.      *)
(* NormSpec  : the normalisation of the arguments of ITC.updates.          *)
(* AskSpec   : the ITC hub with one update generator and the calls of get, *)
(*             has_subscribers and knows_about.                            *)
(* ChainSpec : setup_plugins and run_tasks of demo.py and of util.py over  *)
(*             the same list of named factories.                           *)
(* IsolationSpec : the ITC hub with one update generator on each of two    *)
(*             keys.                                                       *)
(***************************************************************************)
EXTENDS Integers, Sequences, FiniteSets, TLC

(***************************************************************************)
(* Bounds of the model.                                                    *)
(***************************************************************************)
MaxTime == 3          \* time.monotonic() runs over 0..MaxTime
MaxInterval == 2      \* timeout and at_most_every arguments are <= MaxInterval
MaxValue == 2         \* published objects are 1..MaxValue

Keys == {"k1", "k2"}
Subs == {1, 2}
Values == 1..MaxValue

\* Python's None as an argument (timeout, at_most_every) and as deadline
None == -100
\* yield_for_no_value: what a generator yields for a key without an object
NoValue == -1

(***************************************************************************)
(* State of the ITC hub.                                                   *)
(***************************************************************************)
VARIABLES
  objects,   \* ITC._objects: a function from the known keys to their object
  events,    \* ITC._events: a defaultdict from the keys it holds to the list of
             \*              the asyncio.Event of each generator of the key
  isSet,     \* the flag of the asyncio.Event created by generator s
  gen,       \* the frame of the async generator s returned by ITC.updates
  now,       \* time.monotonic()
  unseen,    \* history: ITC.set was called on the key of s since s
             \*          registered or last emitted
  skipped,   \* history: a value set on the key of s since then and replaced
             \*          by another one since (NoValue: none)
  notified,  \* history: s was registered when ITC.set or ITC.fire was called
             \*          on its key, and has not emitted since
  coalesced, \* history: the value of skipped[s] when s last emitted
  lastEmit,  \* history: the time of the last emission of s (None: none yet)
  published  \* history: the keys ITC.set was called with

hist == <<unseen, skipped, notified, coalesced, lastEmit, published>>

itcVars == <<objects, events, isSet, gen, now, unseen, skipped, notified,
             coalesced, lastEmit, published>>

(***************************************************************************)
(* Pure helpers.                                                           *)
(***************************************************************************)
\* dict.get(key, default)
Get(objs, key, default) == IF key \in DOMAIN objs THEN objs[key] ELSE default

\* list.remove(x): drops the first occurrence of x
RECURSIVE Remove(_, _)
Remove(list, x) ==
  IF list = <<>> THEN <<>>
  ELSE IF Head(list) = x THEN Tail(list)
  ELSE <<Head(list)>> \o Remove(Tail(list), x)

InList(list, x) == \E i \in 1..Len(list) : list[i] = x

\* defaultdict(list).__getitem__: the dict after dict[key], which inserts an
\* empty list for a key it does not hold
Indexed(dict, key) ==
  [k \in DOMAIN dict \cup {key} |-> IF k \in DOMAIN dict THEN dict[k] ELSE <<>>]

\* itc.py:48  at_most_every = 0 if at_most_every is None else at_most_every
EffectiveInterval(at_most_every) ==
  IF at_most_every = None THEN 0 ELSE at_most_every

\* a normalisation that does not raise a timeout below at_most_every
EffectiveTimeoutNoClamp(timeout, at_most_every) ==
  IF timeout # None /\ timeout <= 0 THEN None ELSE timeout

\* itc.py:50-56  the timeout every wait of the generator uses
EffectiveTimeout(timeout, at_most_every) ==
  LET ame == EffectiveInterval(at_most_every)
      t1 == IF timeout # None /\ timeout <= 0 THEN None ELSE timeout
  IN  IF t1 # None /\ t1 < ame THEN ame ELSE t1

\* self._events.get(key, []): the list of the key, the dict left alone
EventsOf(key) == Get(events, key, <<>>)

ITCHasSubscribers(key) == Len(EventsOf(key)) > 0
ITCKnowsAbout(key) == key \in DOMAIN objects
ITCGet(key, default) == Get(objects, key, default)

(***************************************************************************)
(* The generator frame.                                                    *)
(*   pc: "none"    updates() not called yet                                *)
(*       "created" updates() called, body not started (no __anext__ yet)   *)
(*       "first"   suspended at the yield of itc.py:62                     *)
(*       "wait"    suspended in event.wait() of itc.py:70                  *)
(*       "sleep"   suspended in asyncio.sleep() of itc.py:76               *)
(*       "yield"   suspended at the yield of itc.py:78                     *)
(*       "closed"  finished (aclose() or an exception thrown into it)      *)
(***************************************************************************)
NoGen == [pc |-> "none", key |-> "k1", yield_immediately |-> FALSE,
          timeout |-> None, at_most_every |-> None, timestamp |-> 0,
          deadline |-> None, item |-> NoValue]

Suspended == {"first", "wait", "sleep", "yield"}
AtYield == {"first", "yield"}

\* itc.py:74-78 once the wait is over, at time t
AfterWait(g, t, objs) ==
  LET waitremain == g.timestamp + g.at_most_every - t
  IN  IF waitremain > 0
      THEN [g EXCEPT !.pc = "sleep", !.deadline = t + waitremain]
      ELSE [g EXCEPT !.pc = "yield", !.deadline = None,
                     !.item = Get(objs, g.key, NoValue)]

\* itc.py:66-70 the top of the loop: event.wait() returns at once when the
\* event is set and suspends otherwise, under asyncio.timeout(timeout)
LoopTop(g, set, t, objs) ==
  IF set THEN AfterWait(g, t, objs)
  ELSE [g EXCEPT !.pc = "wait",
                 !.deadline = IF g.timeout = None THEN None ELSE t + g.timeout]

\* history variables after generator s ran on to frame g2: it emitted when
\* it stopped at a yield
Emitted(s, g2) == g2.pc \in AtYield

History(s, g2) ==
  /\ unseen' = IF Emitted(s, g2) THEN [unseen EXCEPT ![s] = FALSE]
               ELSE unseen
  /\ skipped' = IF Emitted(s, g2) THEN [skipped EXCEPT ![s] = NoValue]
                ELSE skipped
  /\ notified' = IF Emitted(s, g2) THEN [notified EXCEPT ![s] = FALSE]
                 ELSE notified
  /\ coalesced' = IF Emitted(s, g2) THEN [coalesced EXCEPT ![s] = skipped[s]]
                  ELSE coalesced
  /\ lastEmit' = IF Emitted(s, g2) THEN [lastEmit EXCEPT ![s] = now]
                 ELSE lastEmit
  /\ UNCHANGED published

(***************************************************************************)
(* Actions of the hub.                                                     *)
(***************************************************************************)
\* a fire that sets the event of the first generator of the key only
FireFlagsFirstOnly(key) ==
  [s \in Subs |-> IF EventsOf(key) # <<>> /\ Head(EventsOf(key)) = s THEN TRUE
                  ELSE isSet[s]]

\* a fire that sets the events of every key
FireFlagsAllKeys(key) ==
  [s \in Subs |-> IF \E k \in Keys : InList(EventsOf(k), s) THEN TRUE
                  ELSE isSet[s]]

\* ITC.fire (itc.py:34-37): the events list after setting each event of key
FireFlags(key) ==
  [s \in Subs |-> IF InList(EventsOf(key), s) THEN TRUE ELSE isSet[s]]

\* history: the generators registered on key have a notification to emit
Notify(key) ==
  [s \in Subs |-> IF InList(EventsOf(key), s) THEN TRUE ELSE notified[s]]

Fire(key) ==
  /\ isSet' = FireFlags(key)
  /\ notified' = Notify(key)
  /\ UNCHANGED <<objects, events, gen, now, unseen, skipped, coalesced,
                 lastEmit, published>>

\* ITC.set (itc.py:27-29)
Set(key, obj) ==
  /\ objects' = [k \in DOMAIN objects \cup {key} |->
                   IF k = key THEN obj ELSE objects[k]]
  /\ isSet' = FireFlags(key)
  /\ unseen' = [s \in Subs |-> InList(EventsOf(key), s) \/ unseen[s]]
  /\ skipped' = [s \in Subs |->
                  IF InList(EventsOf(key), s) /\ unseen[s]
                     /\ objects[key] # obj
                  THEN objects[key] ELSE skipped[s]]
  /\ notified' = Notify(key)
  /\ published' = published \cup {key}
  /\ UNCHANGED <<events, gen, now, coalesced, lastEmit>>

\* ITC.updates (itc.py:39-47): the call only creates the generator object
Updates(s, key, yield_immediately, timeout, at_most_every) ==
  /\ gen[s].pc = "none"
  /\ gen' = [gen EXCEPT ![s] = [NoGen EXCEPT
                !.pc = "created", !.key = key,
                !.yield_immediately = yield_immediately,
                !.timeout = timeout, !.at_most_every = at_most_every]]
  /\ UNCHANGED <<objects, events, isSet, now, hist>>

\* a first __anext__ that never replays: it registers and waits
AnextStartNoReplay(s) ==
  /\ gen[s].pc = "created"
  /\ LET g == gen[s]
         g1 == [g EXCEPT
                  !.at_most_every = EffectiveInterval(g.at_most_every),
                  !.timeout = EffectiveTimeout(g.timeout, g.at_most_every)]
         g2 == LoopTop(g1, FALSE, now, objects)
     IN  /\ events' = [Indexed(events, g.key) EXCEPT ![g.key] = Append(@, s)]
         /\ isSet' = [isSet EXCEPT ![s] = FALSE]
         /\ gen' = [gen EXCEPT ![s] = g2]
         /\ History(s, g2)
  /\ UNCHANGED <<objects, now>>

\* the first __anext__ (itc.py:48-70): normalise, register, replay or wait
AnextStart(s) ==
  /\ gen[s].pc = "created"
  /\ LET g == gen[s]
         g1 == [g EXCEPT
                  !.at_most_every = EffectiveInterval(g.at_most_every),
                  !.timeout = EffectiveTimeout(g.timeout, g.at_most_every)]
         g2 == IF g.yield_immediately
               THEN [g1 EXCEPT !.pc = "first",
                               !.item = Get(objects, g.key, NoValue)]
               ELSE LoopTop(g1, FALSE, now, objects)
     IN  /\ events' = [Indexed(events, g.key) EXCEPT ![g.key] = Append(@, s)]
         /\ isSet' = [isSet EXCEPT ![s] = FALSE]
         /\ gen' = [gen EXCEPT ![s] = g2]
         /\ History(s, g2)
  /\ UNCHANGED <<objects, now>>

\* __anext__ while suspended at the first yield (itc.py:62 -> 64-78)
AnextFirst(s) ==
  /\ gen[s].pc = "first"
  /\ LET g2 == LoopTop([gen[s] EXCEPT !.timestamp = 0, !.item = NoValue],
                       isSet[s], now, objects)
     IN  /\ gen' = [gen EXCEPT ![s] = g2]
         /\ History(s, g2)
  /\ UNCHANGED <<objects, events, isSet, now>>

\* AnextLoop without the event.clear() of itc.py:79: the event stays set
AnextLoopNoClear(s) ==
  /\ gen[s].pc = "yield"
  /\ LET g2 == LoopTop([gen[s] EXCEPT !.timestamp = now, !.item = NoValue],
                       isSet[s], now, objects)
     IN  /\ gen' = [gen EXCEPT ![s] = g2]
         /\ History(s, g2)
  /\ UNCHANGED <<objects, events, isSet, now>>

\* __anext__ while suspended at the yield of the loop (itc.py:78-80, 66-70)
AnextLoop(s) ==
  /\ gen[s].pc = "yield"
  /\ LET g2 == LoopTop([gen[s] EXCEPT !.timestamp = now, !.item = NoValue],
                       FALSE, now, objects)
     IN  /\ isSet' = [isSet EXCEPT ![s] = FALSE]
         /\ gen' = [gen EXCEPT ![s] = g2]
         /\ History(s, g2)
  /\ UNCHANGED <<objects, events, now>>

\* event.wait() returns because the event is set (itc.py:70)
Wake(s) ==
  /\ gen[s].pc = "wait"
  /\ isSet[s]
  /\ LET g2 == AfterWait(gen[s], now, objects)
     IN  /\ gen' = [gen EXCEPT ![s] = g2]
         /\ History(s, g2)
  /\ UNCHANGED <<objects, events, isSet, now>>

\* a wait whose TimeoutError is not caught: it leaves the generator, through
\* the finally of itc.py:82-83
TimeoutRaises(s) ==
  /\ gen[s].pc = "wait"
  /\ gen[s].deadline # None
  /\ now >= gen[s].deadline
  /\ events' = [Indexed(events, gen[s].key) EXCEPT ![gen[s].key] = Remove(@, s)]
  /\ gen' = [gen EXCEPT ![s] = [NoGen EXCEPT !.pc = "closed",
                                              !.key = gen[s].key]]
  /\ UNCHANGED <<objects, isSet, now, hist>>

\* asyncio.timeout expires, TimeoutError is caught (itc.py:69-72)
Timeout(s) ==
  /\ gen[s].pc = "wait"
  /\ gen[s].deadline # None
  /\ now >= gen[s].deadline
  /\ LET g2 == AfterWait(gen[s], now, objects)
     IN  /\ gen' = [gen EXCEPT ![s] = g2]
         /\ History(s, g2)
  /\ UNCHANGED <<objects, events, isSet, now>>

\* asyncio.sleep(waitremain) is over (itc.py:76-78)
SleepDone(s) ==
  /\ gen[s].pc = "sleep"
  /\ now >= gen[s].deadline
  /\ LET g2 == [gen[s] EXCEPT !.pc = "yield", !.deadline = None,
                              !.item = Get(objects, gen[s].key, NoValue)]
     IN  /\ gen' = [gen EXCEPT ![s] = g2]
         /\ History(s, g2)
  /\ UNCHANGED <<objects, events, isSet, now>>

\* The consumer stops iterating: aclose() throws GeneratorExit at the yield
\* the generator is suspended at, a cancellation of the consumer throws
\* CancelledError at its await.  Only the frames inside the try of itc.py:64
\* run the finally of itc.py:82-83.
CloseEvents(s) ==
  IF gen[s].pc \in {"wait", "sleep", "yield"}
  THEN [Indexed(events, gen[s].key) EXCEPT ![gen[s].key] = Remove(@, s)]
  ELSE events

Close(s) ==
  /\ gen[s].pc \in {"created"} \cup Suspended
  /\ events' = CloseEvents(s)
  /\ gen' = [gen EXCEPT ![s] = [NoGen EXCEPT !.pc = "closed",
                                              !.key = gen[s].key]]
  /\ UNCHANGED <<objects, isSet, now, hist>>

\* time passes
Tick ==
  /\ now < MaxTime
  /\ now' = now + 1
  /\ UNCHANGED <<objects, events, isSet, gen, hist>>

TimeoutArgs == {None} \cup (0..MaxInterval)
IntervalArgs == {None} \cup (1..MaxInterval)

InitITC ==
  /\ objects = << >>
  /\ events = << >>
  /\ isSet = [s \in Subs |-> FALSE]
  /\ gen = [s \in Subs |-> NoGen]
  /\ now = 0
  /\ unseen = [s \in Subs |-> FALSE]
  /\ skipped = [s \in Subs |-> NoValue]
  /\ notified = [s \in Subs |-> FALSE]
  /\ coalesced = [s \in Subs |-> NoValue]
  /\ lastEmit = [s \in Subs |-> None]
  /\ published = {}

(***************************************************************************)
(* The supervisor: run_plugins (util.py:103-110) over plugin_factories.    *)
(***************************************************************************)
NPlugins == 3         \* the length of plugin_factories

\* plugin_factories: the factories are named by their place in the list
Factories == [i \in 1..NPlugins |-> i]
Plugins == 1..NPlugins

\* what a scope yields: no task, a coroutine, or a react_to_data_update(...)
TaskKinds == {"none", "task", "reactor"}

VARIABLES
  phase,      \* where run_plugins is: "setup", "run", "teardown", "finished"
  invoked,    \* history: the factories invoked, in order
  entered,    \* history: the scopes entered, in order
  released,   \* history: the scopes released, in order
  stack,      \* AsyncExitStack: the scopes entered and not yet released
  tasks,      \* setup_plugins' list of recorded tasks
  unit,       \* the asyncio.Task of task_wrapper() for each recorded task
  tgTasks,    \* TaskGroup._tasks: the units whose done callback has not run
  errors,     \* TaskGroup._errors
  aborting,   \* TaskGroup._aborting
  extCancel,  \* cancellation of the task running run_plugins, from outside
  propagate,  \* TaskGroup: propagate_cancellation_error is set
  pending,    \* the exception travelling up run_plugins, with its __context__s
  runOutcome, \* how run_tasks ended: "none" (not yet), "returned", "raised"
  outcome,    \* how run_plugins ended: "none" (not yet), "returned", "raised"
  releaseFaults \* history: the scopes whose release raised

(***************************************************************************)
(* State of the producer/consumer run: the plugins countdown and echo of   *)
(* demo.py as the two units of run_tasks, on the event loop.               *)
(***************************************************************************)
VARIABLES
  ready,      \* the event loop's queue of the tasks that are ready to run
  prod,       \* the producer's task: where it is, what it has yet to publish
  cons,       \* the consumer's task: where it is
  observed,   \* history: the items the consumer's loop body has received
  lagged,     \* history: a value was published while the registered
              \*          consumer was not waiting for its event
  first       \* history: the unit run_tasks created first

e2eVars == <<ready, prod, cons, observed, lagged, first>>

supVars == <<phase, invoked, entered, released, stack, tasks, unit, tgTasks,
             errors, aborting, extCancel, propagate, pending, runOutcome,
             outcome, releaseFaults>>

NoUnit == [st |-> "none", inner |-> "none", cancelReq |-> FALSE]

Fault(kind, who) == [kind |-> kind, who |-> who]

Range(seq) == {seq[i] : i \in 1..Len(seq)}

RECURSIVE Reverse(_)
Reverse(seq) ==
  IF seq = <<>> THEN <<>> ELSE Reverse(Tail(seq)) \o <<Head(seq)>>

Front(seq) == SubSeq(seq, 1, Len(seq) - 1)
Last(seq) == seq[Len(seq)]

InitSup ==
  /\ phase = "setup"
  /\ invoked = <<>>
  /\ entered = <<>>
  /\ released = <<>>
  /\ stack = <<>>
  /\ tasks = <<>>
  /\ unit = [i \in Plugins |-> NoUnit]
  /\ tgTasks = {}
  /\ errors = <<>>
  /\ aborting = FALSE
  /\ extCancel = "no"
  /\ propagate = FALSE
  /\ pending = <<>>
  /\ runOutcome = "none"
  /\ outcome = "none"
  /\ releaseFaults = {}

\* ---- setup_plugins (util.py:70-86) ----

\* InvokeFactory without waiting for the scope of the factory before: the
\* factories all invoked first, as by a gather
InvokeFactoryEager(raises) ==
  /\ phase = "setup"
  /\ Len(invoked) < Len(Factories)
  /\ LET f == Factories[Len(invoked) + 1]
     IN  /\ invoked' = Append(invoked, f)
         /\ IF raises
            THEN /\ pending' = <<Fault("setup", {f})>>
                 /\ phase' = "teardown"
            ELSE UNCHANGED <<pending, phase>>
  /\ UNCHANGED <<releaseFaults,
                 entered, released, stack, tasks, unit, tgTasks, errors,
                 aborting, extCancel, propagate, runOutcome, outcome>>

\* util.py:78  plugin_fn = plugin_factory(*args, **kwargs); raises: the
\* factory raised, the exception leaves setup_plugins and reaches the
\* AsyncExitStack of run_plugins
InvokeFactory(raises) ==
  /\ phase = "setup"
  /\ Len(invoked) = Len(tasks)
  /\ Len(invoked) < Len(Factories)
  /\ LET f == Factories[Len(invoked) + 1]
     IN  /\ invoked' = Append(invoked, f)
         /\ IF raises
            THEN /\ pending' = <<Fault("setup", {f})>>
                 /\ phase' = "teardown"
            ELSE UNCHANGED <<pending, phase>>
  /\ UNCHANGED <<releaseFaults,
                 entered, released, stack, tasks, unit, tgTasks, errors,
                 aborting, extCancel, propagate, runOutcome, outcome>>

\* EnterScope with the exit of the scope pushed before its entry: a scope
\* whose entry raises is on the stack
EnterScopePushFirst(raises, task) ==
  /\ phase = "setup"
  /\ Len(invoked) = Len(tasks) + 1
  /\ LET f == Last(invoked)
     IN  /\ stack' = Append(stack, f)
         /\ IF raises
            THEN /\ pending' = <<Fault("setup", {f})>>
                 /\ phase' = "teardown"
                 /\ UNCHANGED <<entered, tasks>>
            ELSE /\ entered' = Append(entered, f)
                 /\ tasks' = Append(tasks, task)
                 /\ UNCHANGED <<pending, phase>>
  /\ UNCHANGED <<releaseFaults,
                 invoked, released, unit, tgTasks, errors, aborting,
                 extCancel, propagate, runOutcome, outcome>>

\* util.py:81-84  task = await stack.enter_async_context(plugin_fn);
\* tasks.append(task).  A scope whose entry raises is not pushed.
EnterScope(raises, task) ==
  /\ phase = "setup"
  /\ Len(invoked) = Len(tasks) + 1
  /\ LET f == Last(invoked)
     IN  IF raises
         THEN /\ pending' = <<Fault("setup", {f})>>
              /\ phase' = "teardown"
              /\ UNCHANGED <<entered, stack, tasks>>
         ELSE /\ entered' = Append(entered, f)
              /\ stack' = Append(stack, f)
              /\ tasks' = Append(tasks, task)
              /\ UNCHANGED <<pending, phase>>
  /\ UNCHANGED <<releaseFaults,
                 invoked, released, unit, tgTasks, errors, aborting,
                 extCancel, propagate, runOutcome, outcome>>

\* ---- run_tasks (util.py:89-100) and create_plugin_task (util.py:31-56) ----

\* task_wrapper turning the cancellation into a fault of the unit
TaskWrapperCancelFaults(inner) ==
  CASE inner = "returned" -> "done"
    [] inner = "raised" -> "faulted"
    [] inner = "cancelled" -> "faulted"

\* task_wrapper (util.py:37-48): how the unit ends, given how the awaited
\* task (or sleep_forever) ended
TaskWrapper(inner) ==
  CASE inner = "returned" -> "done"
    [] inner = "raised" -> "faulted"
    [] inner = "cancelled" -> "done"

\* a placeholder whose sleep returns after the first asyncio.sleep
SleepOnce(forever) == "returned"

\* sleep_forever (util.py:25-28): asyncio.sleep(sleep, forever) returns
\* forever, and the loop goes on while that is true
SleepForever(forever) == IF forever THEN "never" ELSE "returned"

\* react_to_data_update (util.py:113-124): how it ends when its loop is
\* left by ev
ReactToDataUpdate(ev) == IF ev = "cancelled" THEN "returned" ELSE ev

\* how the body awaited by task_wrapper can end when CancelledError is
\* thrown into it: sleep_forever and a plain task let it through (a task may
\* raise while it cleans up), react_to_data_update catches it
CancelOutcomes(task) ==
  CASE task = "none" -> {"cancelled"}
    [] task = "task" -> {"cancelled", "raised"}
    [] task = "reactor" -> {ReactToDataUpdate("cancelled")}

\* setup_plugins returns and run_tasks creates one unit per recorded task in
\* the TaskGroup (util.py:91-94); each unit runs up to its first await before
\* anything else does
RunTasks ==
  /\ phase = "setup"
  /\ Len(tasks) = Len(Factories)
  /\ phase' = "run"
  /\ unit' = [i \in Plugins |->
                IF i <= Len(tasks) THEN [NoUnit EXCEPT !.st = "running",
                                                       !.inner = "running"]
                ELSE NoUnit]
  /\ tgTasks' = 1..Len(tasks)
  /\ UNCHANGED <<releaseFaults,
                 invoked, entered, released, stack, tasks, errors, aborting,
                 extCancel, propagate, pending, runOutcome, outcome>>

Settle(i, inner) ==
  unit' = [unit EXCEPT ![i].inner = inner, ![i].st = TaskWrapper(inner)]

\* the plugin's task returns (or sleep_forever(3600), were it to return)
UnitFinish(i) ==
  /\ unit[i].st = "running"
  /\ ~unit[i].cancelReq
  /\ \/ tasks[i] = "task"
     \/ tasks[i] = "none" /\ SleepForever(TRUE) = "returned"
  /\ Settle(i, "returned")
  /\ UNCHANGED <<releaseFaults,
                 phase, invoked, entered, released, stack, tasks, tgTasks,
                 errors, aborting, extCancel, propagate, pending, runOutcome,
                 outcome>>

\* the plugin's task (or the callback of react_to_data_update) raises
UnitFault(i) ==
  /\ unit[i].st = "running"
  /\ ~unit[i].cancelReq
  /\ tasks[i] \in {"task", "reactor"}
  /\ Settle(i, IF tasks[i] = "reactor" THEN ReactToDataUpdate("raised")
               ELSE "raised")
  /\ UNCHANGED <<releaseFaults,
                 phase, invoked, entered, released, stack, tasks, tgTasks,
                 errors, aborting, extCancel, propagate, pending, runOutcome,
                 outcome>>

\* CancelledError is thrown into the unit at its await
UnitCancelled(i) ==
  /\ unit[i].st = "running"
  /\ unit[i].cancelReq
  /\ \E inner \in CancelOutcomes(tasks[i]) : Settle(i, inner)
  /\ UNCHANGED <<releaseFaults,
                 phase, invoked, entered, released, stack, tasks, tgTasks,
                 errors, aborting, extCancel, propagate, pending, runOutcome,
                 outcome>>

\* a group that cancels nothing when it aborts
AbortNothing(group) == unit

\* TaskGroup._abort: cancel() every task of the group that is not done
Abort(group) ==
  [i \in Plugins |->
     IF i \in group /\ unit[i].st = "running"
     THEN [unit[i] EXCEPT !.cancelReq = TRUE] ELSE unit[i]]

\* TaskGroup._on_task_done, the done callback of unit i
OnTaskDone(i) ==
  /\ i \in tgTasks
  /\ unit[i].st \in {"done", "faulted", "cancelled"}
  /\ tgTasks' = tgTasks \ {i}
  /\ IF unit[i].st = "faulted"
     THEN /\ errors' = Append(errors, i)
          /\ aborting' = TRUE
          /\ unit' = IF aborting THEN unit ELSE Abort(tgTasks \ {i})
     ELSE UNCHANGED <<errors, aborting, unit>>
  /\ UNCHANGED <<releaseFaults,
                 phase, invoked, entered, released, stack, tasks, extCancel,
                 propagate, pending, runOutcome, outcome>>

\* the task that runs run_plugins is cancelled from outside while run_tasks
\* waits in TaskGroup.__aexit__
ExternalCancel ==
  /\ phase = "run"
  /\ extCancel = "no"
  /\ extCancel' = "requested"
  /\ UNCHANGED <<releaseFaults,
                 phase, invoked, entered, released, stack, tasks, unit,
                 tgTasks, errors, aborting, propagate, pending, runOutcome,
                 outcome>>

\* a TaskGroup.__aexit__ that keeps the CancelledError for later and cancels
\* no task
ParentCancelledNoAbort ==
  /\ phase = "run"
  /\ extCancel = "requested"
  /\ extCancel' = "delivered"
  /\ IF aborting
     THEN UNCHANGED <<propagate, aborting>>
     ELSE /\ propagate' = TRUE
          /\ aborting' = TRUE
  /\ UNCHANGED <<releaseFaults, phase, invoked, entered, released, stack,
                 tasks, unit, tgTasks, errors, pending, runOutcome, outcome>>

\* TaskGroup.__aexit__ catches the CancelledError at its await
ParentCancelled ==
  /\ phase = "run"
  /\ extCancel = "requested"
  /\ extCancel' = "delivered"
  /\ IF aborting
     THEN UNCHANGED <<propagate, aborting, unit>>
     ELSE /\ propagate' = TRUE
          /\ aborting' = TRUE
          /\ unit' = Abort(tgTasks)
  /\ UNCHANGED <<releaseFaults,
                 phase, invoked, entered, released, stack, tasks, tgTasks,
                 errors, pending, runOutcome, outcome>>

\* the except* asyncio.CancelledError: pass of run_tasks (util.py:96-97)
ExceptStar(raised) == IF raised = "cancelled" THEN "returned" ELSE raised

\* what leaves the async with of run_tasks once the group is empty: the
\* errors as a group, else the CancelledError kept for the parent
TaskGroupExit(errs, prop) ==
  IF errs # <<>> THEN "raised" ELSE IF prop THEN "cancelled" ELSE "returned"

\* TaskGroup.__aexit__ returns or raises, run_tasks ends (util.py:96-100)
RunTasksEnd ==
  /\ phase = "run"
  /\ tgTasks = {}
  /\ extCancel # "requested"
  /\ phase' = "teardown"
  /\ runOutcome' = ExceptStar(TaskGroupExit(errors, propagate))
  /\ pending' = IF runOutcome' = "raised"
                THEN <<Fault("run", Range(errors))>> ELSE <<>>
  /\ UNCHANGED <<releaseFaults,
                 invoked, entered, released, stack, tasks, unit, tgTasks,
                 errors, aborting, extCancel, propagate, outcome>>

\* ---- the exit of the AsyncExitStack of run_plugins (util.py:106-108) ----

\* an exit stack that pops from the left: first entered, first released
PopScopeFifo(stk) == [scope |-> Head(stk), rest |-> Tail(stk)]

\* AsyncExitStack pops its callbacks from the right: the scope released
\* next and the scopes left
PopScope(stk) == [scope |-> Last(stk), rest |-> Front(stk)]

\* an exit stack that stops unwinding at the first release that raises
ReleaseAborts(raises) ==
  /\ phase = "teardown"
  /\ stack # <<>>
  /\ LET f == PopScope(stack).scope
     IN  /\ stack' = IF raises THEN <<>> ELSE PopScope(stack).rest
         /\ released' = Append(released, f)
         /\ pending' = IF raises THEN <<Fault("release", {f})>> \o pending
                       ELSE pending
         /\ releaseFaults' = IF raises THEN releaseFaults \cup {f}
                             ELSE releaseFaults
  /\ UNCHANGED <<phase, invoked, entered, tasks, unit, tgTasks, errors,
                 aborting, extCancel, propagate, runOutcome, outcome>>

\* AsyncExitStack.__aexit__ releases one scope; raises: its release raised,
\* and that exception replaces the pending one, which becomes its __context__
Release(raises) ==
  /\ phase = "teardown"
  /\ stack # <<>>
  /\ LET f == PopScope(stack).scope
     IN  /\ stack' = PopScope(stack).rest
         /\ released' = Append(released, f)
         /\ pending' = IF raises THEN <<Fault("release", {f})>> \o pending
                       ELSE pending
         /\ releaseFaults' = IF raises THEN releaseFaults \cup {f}
                             ELSE releaseFaults
  /\ UNCHANGED <<phase, invoked, entered, tasks, unit, tgTasks, errors,
                 aborting, extCancel, propagate, runOutcome, outcome>>

\* the stack is empty: run_plugins returns, or raises the pending exception
Finish ==
  /\ phase = "teardown"
  /\ stack = <<>>
  /\ phase' = "finished"
  /\ outcome' = IF pending = <<>> THEN "returned" ELSE "raised"
  /\ UNCHANGED <<releaseFaults,
                 invoked, entered, released, stack, tasks, unit, tgTasks,
                 errors, aborting, extCancel, propagate, pending, runOutcome>>

(***************************************************************************)
(* The producer/consumer run of demo.py on the event loop: the task of     *)
(* countdown publishes a countdown on a key and sleeps between two values, *)
(* the task of echo iterates over ITC.updates of that key.  The event loop *)
(* runs one task at a time, the head of its ready queue, until that task   *)
(* suspends.                                                               *)
(***************************************************************************)
MaxStart == 3         \* countdown --from is <= MaxStart

\* the key countdown publishes and echo observes
CountdownKey == "k1"
\* the generator of echo's reactor
Echo == 1

\* what the producer publishes: start, start - 1, ..., last
Countdown(start, last) == [i \in 1..(start - last + 1) |-> start - i + 1]

InitE2E ==
  /\ ready = <<>>
  /\ prod = [st |-> "none", all |-> <<>>, todo |-> <<>>]
  /\ cons = "none"
  /\ observed = <<>>
  /\ lagged = FALSE
  /\ first = "none"

\* run_tasks creates the two units in the order of the list (util.py:93-94):
\* their first steps are queued in that order
E2ERunTasks(f, start, last) ==
  /\ first = "none"
  /\ first' = f
  /\ ready' = IF f = "producer" THEN <<"producer", "consumer">>
              ELSE <<"consumer", "producer">>
  /\ prod' = [st |-> "ready", all |-> Countdown(start, last),
              todo |-> Countdown(start, last)]
  /\ cons' = "start"
  /\ UNCHANGED <<observed, lagged, itcVars>>

\* the event of a generator waiting in event.wait() is set: its task is
\* queued
WakeWaiter(queue) ==
  IF cons = "blocked" /\ ~isSet[Echo] THEN Append(queue, "consumer")
  ELSE queue

\* CounterStep with an ITC.set that does not queue the waiting task
CounterStepNoWake ==
  /\ ready # <<>> /\ Head(ready) = "producer"
  /\ prod.st = "ready"
  /\ IF prod.todo # <<>>
     THEN /\ Set(CountdownKey, Head(prod.todo))
          /\ prod' = [prod EXCEPT !.st = "sleep", !.todo = Tail(@)]
          /\ ready' = Tail(ready)
          /\ lagged' = (lagged \/ (InList(EventsOf(CountdownKey), Echo)
                                     /\ cons # "blocked"))
     ELSE /\ prod' = [prod EXCEPT !.st = "done"]
          /\ ready' = Tail(ready)
          /\ UNCHANGED <<itcVars, lagged>>
  /\ UNCHANGED <<cons, observed, first>>

\* one step of counter (demo.py:178-186): publish the next value and sleep,
\* or finish when none is left
CounterStep ==
  /\ ready # <<>> /\ Head(ready) = "producer"
  /\ prod.st = "ready"
  /\ IF prod.todo # <<>>
     THEN /\ Set(CountdownKey, Head(prod.todo))
          /\ prod' = [prod EXCEPT !.st = "sleep", !.todo = Tail(@)]
          /\ ready' = WakeWaiter(Tail(ready))
          /\ lagged' = (lagged \/ (InList(EventsOf(CountdownKey), Echo)
                                     /\ cons # "blocked"))
     ELSE /\ prod' = [prod EXCEPT !.st = "done"]
          /\ ready' = Tail(ready)
          /\ UNCHANGED <<itcVars, lagged>>
  /\ UNCHANGED <<cons, observed, first>>

\* the asyncio.sleep of counter is over (demo.py:183)
CounterTimer ==
  /\ prod.st = "sleep"
  /\ prod' = [prod EXCEPT !.st = "ready"]
  /\ ready' = Append(ready, "producer")
  /\ UNCHANGED <<cons, observed, lagged, first, itcVars>>

\* the first step of reactor: the call of itc.updates (demo.py:201)
ConsumerStart(yi) ==
  /\ ready # <<>> /\ Head(ready) = "consumer"
  /\ cons = "start"
  /\ Updates(Echo, CountdownKey, yi, None, None)
  /\ cons' = "pull"
  /\ UNCHANGED <<ready, prod, observed, lagged, first>>

\* async for: __anext__; the task suspends when the generator waits
ConsumerPull ==
  /\ ready # <<>> /\ Head(ready) = "consumer"
  /\ cons = "pull"
  /\ \/ AnextStart(Echo)
     \/ AnextFirst(Echo)
     \/ AnextLoop(Echo)
  /\ IF gen'[Echo].pc = "wait"
     THEN cons' = "blocked" /\ ready' = Tail(ready)
     ELSE cons' = "body" /\ UNCHANGED ready
  /\ UNCHANGED <<prod, observed, lagged, first>>

\* the woken task resumes in event.wait() (itc.py:70)
ConsumerWake ==
  /\ ready # <<>> /\ Head(ready) = "consumer"
  /\ cons = "blocked"
  /\ Wake(Echo)
  /\ cons' = "body"
  /\ UNCHANGED <<ready, prod, observed, lagged, first>>

\* the body of the loop receives the item (demo.py:202); slow: the body
\* awaits, as the callback of react_to_data_update does (util.py:119-121)
ConsumerBody(slow) ==
  /\ ready # <<>> /\ Head(ready) = "consumer"
  /\ cons = "body"
  /\ observed' = Append(observed, gen[Echo].item)
  /\ IF slow
     THEN cons' = "busy" /\ ready' = Tail(ready)
     ELSE cons' = "pull" /\ UNCHANGED ready
  /\ UNCHANGED <<prod, lagged, first, itcVars>>

\* what the body awaited is over
ConsumerTimer ==
  /\ cons = "busy"
  /\ cons' = "pull"
  /\ ready' = Append(ready, "consumer")
  /\ UNCHANGED <<prod, observed, lagged, first, itcVars>>

(***************************************************************************)
(* The normalisation of the arguments of ITC.updates (itc.py:48-56).       *)
(***************************************************************************)
MaxArg == 5           \* timeout and at_most_every arguments are <= MaxArg

VARIABLES
  args,       \* the timeout and at_most_every ITC.updates was called with
  effective   \* the timeout and at_most_every its loop uses

normVars == <<args, effective>>

NoArgs == [timeout |-> None, at_most_every |-> None, given |-> FALSE]

InitNorm ==
  /\ args = NoArgs
  /\ effective = NoArgs

\* ITC.updates(key, timeout=t, at_most_every=a)
NormCall(t, a) ==
  /\ ~args.given
  /\ args' = [timeout |-> t, at_most_every |-> a, given |-> TRUE]
  /\ UNCHANGED effective

\* itc.py:48-56
Normalise ==
  /\ args.given /\ ~effective.given
  /\ effective' = [timeout |-> EffectiveTimeout(args.timeout,
                                                args.at_most_every),
                   at_most_every |-> EffectiveInterval(args.at_most_every),
                   given |-> TRUE]
  /\ UNCHANGED args

(***************************************************************************)
(* Introspection of the hub (itc.py:31-32, 85-89).                         *)
(***************************************************************************)
VARIABLES
  answer      \* what the last call of get, has_subscribers or knows_about
              \* returned

NoAnswer == [op |-> "none", key |-> "k1", value |-> None]

InitAsk == answer = NoAnswer

\* a has_subscribers that reads self._events[key]: the defaultdict inserts
\* the key
HasSubscribersIndexing(key) ==
  /\ answer' = [op |-> "has_subscribers", key |-> key,
                value |-> ITCHasSubscribers(key)]
  /\ events' = Indexed(events, key)
  /\ UNCHANGED <<objects, isSet, gen, now, hist>>

\* ITC.has_subscribers(key)
HasSubscribers(key) ==
  /\ answer' = [op |-> "has_subscribers", key |-> key,
                value |-> ITCHasSubscribers(key)]
  /\ UNCHANGED itcVars

\* ITC.knows_about(key)
KnowsAbout(key) ==
  /\ answer' = [op |-> "knows_about", key |-> key,
                value |-> ITCKnowsAbout(key)]
  /\ UNCHANGED itcVars

\* ITC.get(key, default)
GetCall(key, default) ==
  /\ answer' = [op |-> "get", key |-> key, value |-> ITCGet(key, default)]
  /\ UNCHANGED itcVars

(***************************************************************************)
(* The two revisions of the supervisor over one list of named factories:   *)
(* setup_plugins and run_tasks of demo.py (demo.py:120-145), which record  *)
(* the tasks in a dict keyed by the factory's name, and of util.py         *)
(* (util.py:70-100), which record them in a list.                          *)
(***************************************************************************)
MaxChain == 3         \* the length of plugin_factories is <= MaxChain

\* the plugin commands of demo.py (demo.py:177, 199): the __name__ of a
\* factory is the name of its command (demo.py:31)
PluginNames == {"countdown", "echo"}

VARIABLES
  chain,      \* plugin_factories, as given to both revisions
  demoRun,    \* run_plugins of demo.py: the scopes entered, the tasks
              \*   recorded, the units scheduled
  utilRun     \* run_plugins of util.py: the same

chainVars == <<chain, demoRun, utilRun>>

\* a factory of the list: its name, what its scope yields, whether entering
\* its scope raises
ChainFactories ==
  [name : PluginNames, kind : {"none", "task"}, raises : BOOLEAN]

\* the lists of at most n factories
RECURSIVE Chains(_)
Chains(n) ==
  IF n = 0 THEN {<<>>}
  ELSE LET shorter == Chains(n - 1)
       IN  shorter \cup {Append(c, f) : c \in {x \in shorter : Len(x) = n - 1},
                                        f \in ChainFactories}

NoRun == [st |-> "none", entered |-> <<>>, tasks |-> <<>>, units |-> <<>>]

InitChain ==
  /\ chain = <<>>
  /\ demoRun = NoRun
  /\ utilRun = NoRun

\* the task yielded by the scope of the i-th factory of the list
TaskOf(i) == [scope |-> i, kind |-> chain[i].kind]

\* dict.__setitem__ on an insertion-ordered dict: a key that is present
\* keeps its place and takes the new value, a new key goes to the end
DictSet(dict, key, value) ==
  IF \E j \in 1..Len(dict) : dict[j].key = key
  THEN [j \in 1..Len(dict) |->
          IF dict[j].key = key THEN [key |-> key, value |-> value]
          ELSE dict[j]]
  ELSE Append(dict, [key |-> key, value |-> value])

\* asyncio.run(run_plugins(plugin_factories)) (demo.py:156-158), with the
\* same list for the two revisions
RunPlugins(list) ==
  /\ demoRun.st = "none" /\ utilRun.st = "none"
  /\ chain' = list
  /\ demoRun' = [NoRun EXCEPT !.st = "setup"]
  /\ utilRun' = [NoRun EXCEPT !.st = "setup"]

\* one turn of the loop of setup_plugins of demo.py (demo.py:124-129):
\* tasks[name] = task
DemoSetupPlugin ==
  /\ demoRun.st = "setup"
  /\ Len(demoRun.entered) < Len(chain)
  /\ LET i == Len(demoRun.entered) + 1
     IN  demoRun' =
           IF chain[i].raises THEN [demoRun EXCEPT !.st = "raised"]
           ELSE [demoRun EXCEPT
                   !.entered = Append(@, i),
                   !.tasks = DictSet(@, chain[i].name, TaskOf(i))]
  /\ UNCHANGED <<chain, utilRun>>

\* run_tasks of demo.py (demo.py:134-139): one unit per item of the dict
DemoRunTasks ==
  /\ demoRun.st = "setup"
  /\ Len(demoRun.entered) = Len(chain)
  /\ demoRun' = [demoRun EXCEPT
                   !.st = "run",
                   !.units = [j \in 1..Len(demoRun.tasks) |->
                                demoRun.tasks[j].value]]
  /\ UNCHANGED <<chain, utilRun>>

\* one turn of the loop of setup_plugins of util.py (util.py:77-84):
\* tasks.append(task)
UtilSetupPlugin ==
  /\ utilRun.st = "setup"
  /\ Len(utilRun.entered) < Len(chain)
  /\ LET i == Len(utilRun.entered) + 1
     IN  utilRun' =
           IF chain[i].raises THEN [utilRun EXCEPT !.st = "raised"]
           ELSE [utilRun EXCEPT
                   !.entered = Append(@, i),
                   !.tasks = Append(@, TaskOf(i))]
  /\ UNCHANGED <<chain, demoRun>>

\* run_tasks of util.py (util.py:91-94): one unit per item of the list
UtilRunTasks ==
  /\ utilRun.st = "setup"
  /\ Len(utilRun.entered) = Len(chain)
  /\ utilRun' = [utilRun EXCEPT !.st = "run", !.units = utilRun.tasks]
  /\ UNCHANGED <<chain, demoRun>>

\* what the actions of one part of the model leave alone
restOfHub == <<supVars, e2eVars, normVars, answer, chainVars>>
restOfSup == <<itcVars, e2eVars, normVars, answer, chainVars>>
restOfRun == <<supVars, normVars, answer, chainVars>>
restOfChain == <<itcVars, supVars, e2eVars, normVars, answer>>
restOfAsk == <<supVars, e2eVars, normVars, chainVars>>

vars == <<objects, events, isSet, gen, now, unseen, skipped, notified, coalesced,
          lastEmit, published,
          phase, invoked, entered, released, stack, tasks, unit, tgTasks,
          errors, aborting, extCancel, propagate, pending, runOutcome,
          outcome, releaseFaults,
          ready, prod, cons, observed, lagged, first,
          args, effective, answer, chain, demoRun, utilRun>>

(***************************************************************************)
(* The specifications.                                                     *)
(***************************************************************************)
Init == InitITC /\ InitSup /\ InitE2E /\ InitNorm /\ InitAsk /\ InitChain

\* the generators of Spec are created with the default arguments
Next ==
  \/ \E k \in Keys, v \in Values : Set(k, v) /\ UNCHANGED restOfHub
  \/ \E k \in Keys : Fire(k) /\ UNCHANGED restOfHub
  \/ \E s \in Subs, k \in Keys, yi \in BOOLEAN :
        Updates(s, k, yi, None, None) /\ UNCHANGED restOfHub
  \/ \E s \in Subs : AnextStart(s) /\ UNCHANGED restOfHub
  \/ \E s \in Subs : AnextFirst(s) /\ UNCHANGED restOfHub
  \/ \E s \in Subs : AnextLoop(s) /\ UNCHANGED restOfHub
  \/ \E s \in Subs : Wake(s) /\ UNCHANGED restOfHub
  \/ \E s \in Subs : Close(s) /\ UNCHANGED restOfHub

Spec == Init /\ [][Next]_vars

\* the one generator of TimedSpec
TimedSubs == {1}

TimedNext ==
  \/ \E k \in Keys, v \in Values : Set(k, v) /\ UNCHANGED restOfHub
  \/ \E k \in Keys : Fire(k) /\ UNCHANGED restOfHub
  \/ \E s \in TimedSubs, k \in Keys, yi \in BOOLEAN,
        t \in TimeoutArgs, a \in IntervalArgs :
        Updates(s, k, yi, t, a) /\ UNCHANGED restOfHub
  \/ \E s \in TimedSubs : AnextStart(s) /\ UNCHANGED restOfHub
  \/ \E s \in TimedSubs : AnextFirst(s) /\ UNCHANGED restOfHub
  \/ \E s \in TimedSubs : AnextLoop(s) /\ UNCHANGED restOfHub
  \/ \E s \in TimedSubs : Wake(s) /\ UNCHANGED restOfHub
  \/ \E s \in TimedSubs : Timeout(s) /\ UNCHANGED restOfHub
  \/ \E s \in TimedSubs : SleepDone(s) /\ UNCHANGED restOfHub
  \/ \E s \in TimedSubs : Close(s) /\ UNCHANGED restOfHub
  \/ Tick /\ UNCHANGED restOfHub

TimedSpec == Init /\ [][TimedNext]_vars

SupNext ==
  \/ \E r \in BOOLEAN : InvokeFactory(r) /\ UNCHANGED restOfSup
  \/ \E r \in BOOLEAN, t \in TaskKinds : EnterScope(r, t) /\ UNCHANGED restOfSup
  \/ RunTasks /\ UNCHANGED restOfSup
  \/ \E i \in Plugins : UnitFinish(i) /\ UNCHANGED restOfSup
  \/ \E i \in Plugins : UnitFault(i) /\ UNCHANGED restOfSup
  \/ \E i \in Plugins : UnitCancelled(i) /\ UNCHANGED restOfSup
  \/ \E i \in Plugins : OnTaskDone(i) /\ UNCHANGED restOfSup
  \/ ExternalCancel /\ UNCHANGED restOfSup
  \/ ParentCancelled /\ UNCHANGED restOfSup
  \/ RunTasksEnd /\ UNCHANGED restOfSup
  \/ \E r \in BOOLEAN : Release(r) /\ UNCHANGED restOfSup
  \/ Finish /\ UNCHANGED restOfSup

SupSpec == Init /\ [][SupNext]_vars

\* The event loop runs every callback that is ready: a done callback, the
\* step of a cancelled task, the step of run_tasks once its wait is over.
SupFairness ==
  /\ \A i \in Plugins : WF_vars(OnTaskDone(i) /\ UNCHANGED restOfSup)
  /\ \A i \in Plugins : WF_vars(UnitCancelled(i) /\ UNCHANGED restOfSup)
  /\ WF_vars(ParentCancelled /\ UNCHANGED restOfSup)
  /\ WF_vars(RunTasksEnd /\ UNCHANGED restOfSup)

SupFairSpec == SupSpec /\ SupFairness

\* the run of countdown and echo under run_tasks
E2ENext ==
  \/ \E f \in {"producer", "consumer"}, start \in 1..MaxStart, last \in {0, 1} :
        E2ERunTasks(f, start, last) /\ UNCHANGED restOfRun
  \/ CounterStep /\ UNCHANGED restOfRun
  \/ CounterTimer /\ UNCHANGED restOfRun
  \/ \E yi \in BOOLEAN : ConsumerStart(yi) /\ UNCHANGED restOfRun
  \/ ConsumerPull /\ UNCHANGED restOfRun
  \/ ConsumerWake /\ UNCHANGED restOfRun
  \/ \E slow \in BOOLEAN : ConsumerBody(slow) /\ UNCHANGED restOfRun
  \/ ConsumerTimer /\ UNCHANGED restOfRun

E2ESpec == Init /\ [][E2ENext]_vars

NormTimeouts == {None} \cup (-1..MaxArg)
NormIntervals == {None} \cup (0..MaxArg)

\* the normalisation of ITC.updates over its arguments
NormNext ==
  \/ \E t \in NormTimeouts, a \in NormIntervals :
        NormCall(t, a) /\ UNCHANGED <<itcVars, supVars, e2eVars, answer, chainVars>>
  \/ Normalise /\ UNCHANGED <<itcVars, supVars, e2eVars, answer, chainVars>>

NormSpec == Init /\ [][NormNext]_vars

\* the hub with two generators on one key, created with the default timeout
\* and at_most_every
BroadcastNext ==
  \/ \E v \in Values : Set(CountdownKey, v) /\ UNCHANGED restOfHub
  \/ \E s \in Subs, yi \in BOOLEAN :
        Updates(s, CountdownKey, yi, None, None) /\ UNCHANGED restOfHub
  \/ \E s \in Subs : AnextStart(s) /\ UNCHANGED restOfHub
  \/ \E s \in Subs : AnextFirst(s) /\ UNCHANGED restOfHub
  \/ \E s \in Subs : AnextLoop(s) /\ UNCHANGED restOfHub
  \/ \E s \in Subs : Wake(s) /\ UNCHANGED restOfHub
  \/ \E s \in Subs : Close(s) /\ UNCHANGED restOfHub

BroadcastSpec == Init /\ [][BroadcastNext]_vars

\* the hub with one generator and the introspection calls
AskNext ==
  \/ \E k \in Keys, v \in Values : Set(k, v) /\ UNCHANGED restOfHub
  \/ \E s \in TimedSubs, k \in Keys, yi \in BOOLEAN :
        Updates(s, k, yi, None, None) /\ UNCHANGED restOfHub
  \/ \E s \in TimedSubs : AnextStart(s) /\ UNCHANGED restOfHub
  \/ \E s \in TimedSubs : AnextFirst(s) /\ UNCHANGED restOfHub
  \/ \E s \in TimedSubs : AnextLoop(s) /\ UNCHANGED restOfHub
  \/ \E s \in TimedSubs : Wake(s) /\ UNCHANGED restOfHub
  \/ \E s \in TimedSubs : Close(s) /\ UNCHANGED restOfHub
  \/ \E k \in Keys : HasSubscribers(k) /\ UNCHANGED restOfAsk
  \/ \E k \in Keys : KnowsAbout(k) /\ UNCHANGED restOfAsk
  \/ \E k \in Keys, d \in {None, NoValue} :
        GetCall(k, d) /\ UNCHANGED restOfAsk

AskSpec == Init /\ [][AskNext]_vars

\* the two revisions of the supervisor over the same list of factories
ChainNext ==
  \/ \E list \in Chains(MaxChain) : RunPlugins(list) /\ UNCHANGED restOfChain
  \/ DemoSetupPlugin /\ UNCHANGED restOfChain
  \/ DemoRunTasks /\ UNCHANGED restOfChain
  \/ UtilSetupPlugin /\ UNCHANGED restOfChain
  \/ UtilRunTasks /\ UNCHANGED restOfChain

ChainSpec == Init /\ [][ChainNext]_vars

\* the key each generator of IsolationSpec is created on
KeyOf(s) == IF s = 1 THEN "k1" ELSE "k2"

\* the hub with one generator on each of two keys, created with the default
\* timeout and at_most_every
IsolationNext ==
  \/ \E k \in Keys, v \in Values : Set(k, v) /\ UNCHANGED restOfHub
  \/ \E k \in Keys : Fire(k) /\ UNCHANGED restOfHub
  \/ \E s \in Subs, yi \in BOOLEAN :
        Updates(s, KeyOf(s), yi, None, None) /\ UNCHANGED restOfHub
  \/ \E s \in Subs : AnextStart(s) /\ UNCHANGED restOfHub
  \/ \E s \in Subs : AnextFirst(s) /\ UNCHANGED restOfHub
  \/ \E s \in Subs : AnextLoop(s) /\ UNCHANGED restOfHub
  \/ \E s \in Subs : Wake(s) /\ UNCHANGED restOfHub
  \/ \E s \in Subs : Close(s) /\ UNCHANGED restOfHub

IsolationSpec == Init /\ [][IsolationNext]_vars

(***************************************************************************)
(* Claims about the ITC hub.                                               *)
(***************************************************************************)
Registered(s) == InList(EventsOf(gen[s].key), s)

\* generator s emits in this step: it reaches one of its two yields
Emits(s) == gen[s].pc # gen'[s].pc /\ gen'[s].pc \in AtYield

\* C1 (as claimed): no missed updates.  A registered generator that waits
\* for its event while a value set on its key after its registration (and
\* after its last emission) has not been emitted has its event set, so that
\* it emits the value without a further ITC.set and without a timeout.
C1_NoMissedUpdate ==
  \A s \in Subs :
    (gen[s].pc = "wait" /\ unseen[s]) => isSet[s]

\* C2 (as claimed): deregistration.  A generator that was closed or
\* cancelled, wherever it was suspended, has no event left in the registry,
\* and a key all of whose generators have terminated has no subscribers.
C2_Deregistered ==
  /\ \A s \in Subs :
       gen[s].pc = "closed" => \A k \in Keys : ~InList(EventsOf(k), s)
  /\ \A k \in Keys :
       (\A s \in Subs : gen[s].key = k => gen[s].pc \in {"none", "closed"})
          => ~ITCHasSubscribers(k)

\* C9 (as claimed): minimum spacing.  Whenever a generator emits and has
\* emitted before (the replayed first item included), at least at_most_every
\* has passed since its previous emission.
C9_MinSpacing ==
  [][\A s \in Subs :
       (Emits(s) /\ lastEmit[s] # None)
          => now - lastEmit[s] >= gen'[s].at_most_every]_vars

\* C10: coalescing and latest-at-emission.  Every emitted item is the object
\* stored for the key at that moment (NoValue if there is none); after
\* ITC.set(k, v1) and ITC.set(k, v2) with no emission in between the next
\* emission does not carry v1; and outside the yield of the loop a set event
\* always stands for a notification the generator has not emitted yet: the
\* event is cleared before the generator waits again, so that no call of
\* ITC.set is emitted twice.
C10_Coalescing ==
  /\ [][\A s \in Subs :
          Emits(s) =>
            /\ gen'[s].item = Get(objects, gen'[s].key, NoValue)
            /\ skipped[s] # NoValue => gen'[s].item # skipped[s]]_vars
  /\ [](\A s \in Subs :
          (gen[s].pc \in {"first", "wait", "sleep"} /\ isSet[s])
             => notified[s])

\* C10, its case: an emission after v1 and then v2 were set on the key, which
\* carries v2
C10_Witness ==
  \E s \in Subs :
    /\ gen[s].pc = "yield"
    /\ coalesced[s] # NoValue
    /\ gen[s].item = objects[gen[s].key]
    /\ gen[s].item # coalesced[s]

\* C15: the timeout is a keep-alive.  A generator that waits with a timeout
\* has a deadline, at most timeout away; when the wait expires the generator
\* neither ends nor leaves the registry: it emits the object stored for its
\* key at that moment (NoValue if there is none); and a generator that is
\* pulled after an emission of its loop waits again, with a new deadline.
C15_TimeoutKeepAlive ==
  /\ [](\A s \in Subs :
          (gen[s].pc = "wait" /\ gen[s].timeout # None)
             => /\ gen[s].timeout > 0
                /\ gen[s].deadline # None
                /\ gen[s].deadline <= now + gen[s].timeout)
  /\ [][\A s \in Subs :
          /\ Timeout(s) =>
               /\ gen'[s].pc = "yield"
               /\ gen'[s].item = Get(objects, gen[s].key, NoValue)
               /\ Registered(s)'
          /\ (gen[s].pc = "yield" /\ gen'[s].pc \notin {"yield", "closed"}) =>
               /\ gen'[s].pc = "wait"
               /\ Registered(s)'
               /\ gen[s].timeout # None
                    => gen'[s].deadline = now + gen[s].timeout]_vars

\* C15, its case: in a later round of its loop the generator has emitted
\* the absent marker because its wait expired, no value being stored and no
\* event set
C15_Witness ==
  \E s \in Subs :
    /\ gen[s].pc = "yield"
    /\ gen[s].timeout # None
    /\ gen[s].timestamp > 0
    /\ ~isSet[s] /\ ~notified[s]
    /\ gen[s].key \notin DOMAIN objects
    /\ gen[s].item = NoValue

\* C16: replay.  The first pull of a generator created with
\* yield_immediately registers it and yields at once the object stored for
\* its key at that moment (NoValue if there is none); the first pull of a
\* generator created without it registers it and waits; and the loop emits
\* only after a notification (ITC.set or ITC.fire on the key) that came once
\* the generator was registered and that it has not emitted yet, or after
\* its wait has expired.
C16_Replay ==
  [][\A s \in Subs :
       /\ (gen[s].pc = "created" /\ gen'[s].pc \notin {"created", "closed"}) =>
            /\ ~Registered(s) /\ Registered(s)'
            /\ IF gen[s].yield_immediately
               THEN /\ gen'[s].pc = "first"
                    /\ gen'[s].item = Get(objects, gen[s].key, NoValue)
               ELSE gen'[s].pc = "wait"
       /\ (Emits(s) /\ gen'[s].pc = "yield") =>
            \/ notified[s]
            \/ gen[s].pc = "wait" /\ gen[s].deadline # None
                  /\ now >= gen[s].deadline]_vars

\* C16, its case: the replayed first item is a value that was set before the
\* generator registered, with no notification since
C16_Witness ==
  \E s \in Subs :
    /\ gen[s].pc = "first"
    /\ gen[s].item # NoValue
    /\ gen[s].item = objects[gen[s].key]
    /\ ~notified[s] /\ ~isSet[s]

\* C17: broadcast.  ITC.set(k, v) stores v for k and sets the event of
\* every generator registered on k, whether or not v is the value already
\* stored; a generator that waits with its event set keeps the event until
\* it emits, and what it emits is the object stored then; and a step of one
\* generator (its emission, its event.clear(), its registration, its end)
\* leaves the event of every other generator as it was.
C17_Broadcast ==
  /\ [][\A k \in Keys, v \in Values :
          Set(k, v) =>
            /\ ITCGet(k, None)' = v
            /\ \A s \in Subs : InList(EventsOf(k), s) => isSet'[s]]_vars
  /\ [][\A s \in Subs :
          (gen[s].pc = "wait" /\ isSet[s]) =>
            \/ gen'[s].pc = "wait" /\ isSet'[s]
            \/ gen'[s].pc = "yield"
                 /\ gen'[s].item = Get(objects, gen[s].key, NoValue)
            \/ gen'[s].pc = "closed"]_vars
  /\ [][\A s, t \in Subs :
          (s # t /\ gen'[s] # gen[s]) => isSet'[t] = isSet[t]]_vars

\* C17, its case: two generators on one key, both woken in their wait by
\* ITC.set after each had emitted before, the value set being the one the
\* first of them emitted last
C17_Witness ==
  \E s, t \in Subs :
    /\ s # t
    /\ gen[s].key = gen[t].key
    /\ gen[s].pc = "wait" /\ isSet[s] /\ unseen[s] /\ lastEmit[s] # None
    /\ gen[t].pc = "wait" /\ isSet[t] /\ unseen[t] /\ lastEmit[t] # None
    /\ skipped[s] = NoValue

\* C18: timeout normalisation.  For every timeout and at_most_every
\* ITC.updates is called with, the timeout its waits use is None when the
\* timeout is None or not positive, at_most_every when the timeout is
\* positive and below at_most_every, and the timeout as given otherwise; an
\* at_most_every of None counts as 0.
C18_TimeoutNormalisation ==
  effective.given =>
    LET t == args.timeout
        m == IF args.at_most_every = None THEN 0 ELSE args.at_most_every
    IN  /\ effective.at_most_every = m
        /\ (t = None \/ (t # None /\ t <= 0)) => effective.timeout = None
        /\ (t # None /\ 0 < t /\ t < m) => effective.timeout = m
        /\ (t # None /\ 0 < t /\ t >= m) => effective.timeout = t

\* C18, its case: a positive timeout below at_most_every was raised to it
C18_Witness ==
  /\ effective.given
  /\ args.timeout # None /\ args.at_most_every # None
  /\ 0 < args.timeout /\ args.timeout < args.at_most_every
  /\ effective.timeout = args.at_most_every

\* C19: introspection.  has_subscribers(k) is true exactly when the event
\* of a generator is in the registry under k, which is so for every
\* generator on k that has started and has not ended, and only for
\* generators that have started; knows_about(k) is true exactly when
\* ITC.set was called with k, and stays true; get(k, d) is the object stored
\* for k, or d when there is none; each of the three is one step that
\* returns this and leaves the objects, the registry (its keys included),
\* the events and the generators as they were.
C19_Introspection ==
  /\ [](\A k \in Keys :
          /\ ITCHasSubscribers(k)
               <=> \E s \in Subs : gen[s].key = k /\ Registered(s)
          /\ (\E s \in Subs : gen[s].key = k /\ gen[s].pc \in Suspended)
               => ITCHasSubscribers(k)
          /\ ITCHasSubscribers(k)
               => \E s \in Subs : gen[s].key = k
                                    /\ gen[s].pc \in Suspended \cup {"closed"}
          /\ ITCKnowsAbout(k) <=> k \in published)
  /\ [][\A k \in Keys : ITCKnowsAbout(k) => ITCKnowsAbout(k)']_vars
  /\ [][\A k \in Keys :
          /\ HasSubscribers(k) =>
               /\ answer'.value = (\E s \in Subs : InList(EventsOf(k), s))
               /\ UNCHANGED <<objects, events, isSet, gen>>
          /\ KnowsAbout(k) =>
               /\ answer'.value = (k \in published)
               /\ UNCHANGED <<objects, events, isSet, gen>>
          /\ \A d \in {None, NoValue} :
               GetCall(k, d) =>
                 /\ answer'.value = IF k \in published THEN objects[k] ELSE d
                 /\ UNCHANGED <<objects, events, isSet, gen>>]_vars

\* C19, its case: has_subscribers has answered true for a key with a
\* registered generator whose event is set, and nothing has changed:
\* the other key is still unknown to the registry and to the objects
C19_Witness ==
  \E s \in Subs :
    /\ answer = [op |-> "has_subscribers", key |-> gen[s].key, value |-> TRUE]
    /\ Registered(s) /\ isSet[s] /\ gen[s].pc = "wait"
    /\ DOMAIN events = {gen[s].key}
    /\ DOMAIN objects = {gen[s].key}

\* C20 (as claimed): a subscription exists from the call.  A generator that
\* ITC.updates has returned and that has not ended is registered, whether or
\* not it has been pulled, and has_subscribers of its key is true.
C20_RegisteredFromCall ==
  \A s \in Subs :
    gen[s].pc \in {"created"} \cup Suspended
       => (Registered(s) /\ ITCHasSubscribers(gen[s].key))

\* what ITC.set(k, ...) and ITC.fire(k) leave alone for another key
KeyFrame(other) ==
  /\ (other \in DOMAIN objects') = (other \in DOMAIN objects)
  /\ Get(objects', other, NoValue) = Get(objects, other, NoValue)
  /\ (other \in DOMAIN events') = (other \in DOMAIN events)
  /\ EventsOf(other)' = EventsOf(other)
  /\ \A s \in Subs :
       (InList(EventsOf(other), s) \/ gen[s].key = other)
          => (isSet'[s] = isSet[s] /\ gen'[s] = gen[s])

\* C22: key isolation.  For two different keys k and k', ITC.set(k, v) and
\* ITC.fire(k) leave the latest value of k', the generators registered on
\* k' and the flag of the event of each of them unchanged; a generator is
\* registered on its own key only, and a generator whose wait ends because
\* its event is set was registered when ITC.set or ITC.fire was called on
\* its own key: it never emits because of a publish to another key.
C22_KeyIsolation ==
  [][ /\ \A k \in Keys :
          ((\E v \in Values : Set(k, v)) \/ Fire(k))
             => \A other \in Keys \ {k} : KeyFrame(other)
      /\ \A k \in Keys, s \in Subs :
           InList(EventsOf(k), s) => gen[s].key = k
      /\ \A s \in Subs : Wake(s) => notified[s] ]_vars

\* C22, its case: a value was set on k1 and on no other key; the generator
\* of k1 has emitted it, while the generator registered on k2 still waits,
\* its event not set, and k2 has no value
C22_Witness ==
  /\ published = {"k1"}
  /\ gen[1].key = "k1" /\ gen[1].pc = "yield" /\ gen[1].item \in Values
  /\ gen[2].key = "k2" /\ gen[2].pc = "wait" /\ Registered(2)
  /\ ~isSet[2]
  /\ "k2" \notin DOMAIN objects

(***************************************************************************)
(* Claims about the supervisor.                                            *)
(***************************************************************************)
Running(i) == unit[i].st = "running"
Settled(i) == unit[i].st \in {"done", "faulted", "cancelled"}
\* the done callback of unit i has run: the TaskGroup knows how it ended
Noticed(i) == Settled(i) /\ i \notin tgTasks
IsPrefix(p, q) == Len(p) <= Len(q) /\ p = SubSeq(q, 1, Len(p))
NoDuplicates(seq) == Cardinality(Range(seq)) = Len(seq)

C4_RunFault ==
  /\ \A b \in Plugins :
       (phase = "run" /\ b \in Range(errors))
          => \A a \in Plugins : Running(a) => unit[a].cancelReq
  /\ \A i \in Plugins : Noticed(i) =>
       (i \in Range(errors) <=> unit[i].inner = "raised")
  /\ (phase = "teardown" /\ runOutcome # "none") =>
       /\ \A i \in Plugins : Noticed(i)
       /\ errors # <<>> =>
            /\ runOutcome = "raised"
            /\ released = <<>> =>
                 pending = <<Fault("run", {i \in Plugins :
                                              unit[i].inner = "raised"})>>

\* C4, its case: B raised while A was running, A was cancelled, and run_tasks
\* has raised B's fault alone
C4_Witness ==
  \E a, b \in Plugins :
    /\ phase = "teardown" /\ released = <<>>
    /\ unit[b].inner = "raised" /\ ~unit[b].cancelReq
    /\ unit[a].inner = "cancelled" /\ unit[a].cancelReq
    /\ pending = <<Fault("run", {b})>>

\* C5 (as claimed): cancellation is never suppressed.  A unit whose task let
\* the CancelledError through ends cancelled; react_to_data_update does not
\* return normally from a cancellation; run_tasks, cancelled from outside
\* with no fault to report, ends cancelled.
C5_CancellationPropagates ==
  /\ \A i \in Plugins :
       (unit[i].cancelReq /\ unit[i].inner = "cancelled")
          => unit[i].st = "cancelled"
  /\ \A i \in Plugins :
       (Settled(i) /\ unit[i].cancelReq /\ tasks[i] = "reactor")
          => unit[i].inner # "returned"
  /\ (runOutcome # "none" /\ propagate /\ errors = <<>>)
       => runOutcome = "cancelled"

\* C6: teardown exactly once, LIFO, after the run has settled.  The scopes
\* released are always the last entered ones, in the reverse order of their
\* entry, none twice; no scope is released while a unit is running; no scope
\* is entered once a release has happened; and when run_plugins ends, however
\* the run phase ended, every entered scope has been released.
C6_TeardownLIFO ==
  /\ IsPrefix(released, Reverse(entered))
  /\ NoDuplicates(released) /\ NoDuplicates(entered)
  /\ released # <<>> =>
       /\ phase \in {"teardown", "finished"}
       /\ \A i \in Plugins : ~Running(i) /\ i \notin tgTasks
  /\ stack = SubSeq(entered, 1, Len(entered) - Len(released))
  /\ phase = "finished" => released = Reverse(entered)

\* C6, its case: a run that ended by a run fault after a cancellation from
\* outside, with all scopes released
C6_Witness ==
  /\ phase = "finished"
  /\ Len(released) = NPlugins
  /\ errors # <<>>
  /\ extCancel = "delivered"

\* run_plugins left setup by an exception: run_tasks was never called
SetupFailed == phase \in {"teardown", "finished"} /\ runOutcome = "none"

\* C7: setup fault.  When the k-th factory or the entry of its scope raised,
\* the factories invoked are the first k, no unit was ever created, the
\* scopes released are scopes of the first k-1 plugins, in reverse order of
\* entry, and run_plugins ends by raising with the setup fault (as the
\* exception or as the __context__ of a release fault).
C7_SetupFault ==
  SetupFailed =>
    LET k == Len(invoked)
    IN  /\ k >= 1
        /\ invoked = SubSeq(Factories, 1, k)
        /\ entered = SubSeq(Factories, 1, k - 1)
        /\ \A i \in Plugins : unit[i].st = "none"
        /\ tgTasks = {}
        /\ Range(released) \subseteq Range(entered)
        /\ IsPrefix(released, Reverse(entered))
        /\ Fault("setup", {invoked[k]}) \in Range(pending)
        /\ phase = "finished" =>
             /\ released = Reverse(SubSeq(Factories, 1, k - 1))
             /\ outcome = "raised"

\* C7, its case: the entry of the last scope raised, the scopes before it
\* have been released and run_plugins has raised
C7_Witness ==
  /\ SetupFailed
  /\ phase = "finished"
  /\ Len(invoked) = NPlugins
  /\ Len(released) = NPlugins - 1

\* C8: deterministic setup order.  The factories invoked are a prefix of the
\* list, each once; a factory is invoked only when the scopes of all factories
\* before it have been entered; a unit exists only when every factory has
\* been invoked and every scope entered; the scopes are released in the
\* reverse order of their entry.
C8_SetupOrder ==
  /\ IsPrefix(invoked, Factories)
  /\ IsPrefix(entered, invoked)
  /\ Len(invoked) <= Len(entered) + 1
  /\ Len(tasks) = Len(entered)
  /\ (\E i \in Plugins : unit[i].st # "none") =>
       (invoked = Factories /\ entered = Factories)
  /\ IsPrefix(released, Reverse(entered))
  /\ phase = "finished" => released = Reverse(entered)

\* C8, its case: all factories invoked and entered in list order, a run, and
\* all scopes released
C8_Witness ==
  /\ phase = "finished"
  /\ runOutcome # "none"
  /\ entered = Factories
  /\ released = Reverse(Factories)

\* C12: cancellation of the run phase from outside.  Once the CancelledError
\* has reached run_tasks every unit still running, plugin task or
\* placeholder, has a cancellation requested; run_tasks ends only when every
\* unit has settled and its done callback has run; a scope is released only
\* after that; and no unit is running once run_plugins has ended.
C12_ExternalCancel ==
  /\ (phase = "run" /\ extCancel = "delivered")
       => \A i \in Plugins : Running(i) => unit[i].cancelReq
  /\ (extCancel # "no" /\ runOutcome # "none")
       => /\ extCancel = "delivered"
          /\ \A i \in Plugins : Noticed(i)
  /\ (extCancel # "no" /\ released # <<>>)
       => /\ runOutcome # "none"
          /\ \A i \in Plugins : Settled(i)
  /\ (extCancel # "no" /\ phase = "finished")
       => /\ \A i \in Plugins : ~Running(i)
          /\ released = Reverse(entered)

\* C12, its case: a run with a placeholder and a plugin task, cancelled from
\* outside with no fault, all scopes released
C12_Witness ==
  /\ phase = "finished"
  /\ extCancel = "delivered"
  /\ errors = <<>>
  /\ released = Reverse(Factories)
  /\ \E i, j \in Plugins :
       /\ tasks[i] = "none" /\ unit[i].cancelReq /\ Settled(i)
       /\ tasks[j] = "task" /\ unit[j].cancelReq /\ Settled(j)

\* the plugins of the run all yielded no task
AllPlaceholders ==
  /\ Len(tasks) = Len(Factories)
  /\ \A i \in Plugins : tasks[i] = "none"

\* C13: the placeholder.  The unit of a plugin that yielded no task settles
\* only by a cancellation; a run whose plugins all yielded no task ends its
\* run phase, and starts to release its scopes, only after a cancellation of
\* run_tasks from outside.
C13_Placeholder ==
  /\ \A i \in Plugins :
       (unit[i].st # "none" /\ tasks[i] = "none" /\ ~Running(i))
          => (unit[i].cancelReq /\ unit[i].inner = "cancelled")
  /\ (AllPlaceholders /\ extCancel # "delivered")
       => /\ runOutcome = "none"
          /\ released = <<>>
          /\ phase \in {"setup", "run"}
          /\ errors = <<>>

\* C13, its case: a run of placeholders only that was cancelled from outside
\* and has ended
C13_Witness ==
  /\ AllPlaceholders
  /\ phase = "finished"
  /\ extCancel = "delivered"
  /\ runOutcome = "returned"

\* C14: teardown fault.  A scope whose release raised has been released, and
\* its fault is in the chain of the exception that travels up; the scopes
\* are released in the reverse order of their entry, none twice, whatever
\* release raised; and when run_plugins ends every entered scope has been
\* released and, if a release raised, run_plugins raises, a release fault
\* first in the chain.
C14_TeardownFault ==
  /\ releaseFaults \subseteq Range(released)
  /\ \A f \in releaseFaults : Fault("release", {f}) \in Range(pending)
  /\ releaseFaults # {}
       => /\ IsPrefix(released, Reverse(entered))
          /\ NoDuplicates(released)
          /\ stack = SubSeq(entered, 1, Len(entered) - Len(released))
  /\ (phase = "finished" /\ releaseFaults # {})
       => /\ released = Reverse(entered)
          /\ outcome = "raised"
          /\ Head(pending).kind = "release"

\* C14, its case: the release of the last entered scope raised, the scopes
\* entered before it have been released after it, and run_plugins has raised
C14_Witness ==
  /\ phase = "finished"
  /\ entered = Factories
  /\ Last(entered) \in releaseFaults
  /\ released = Reverse(entered)
  /\ outcome = "raised"

\* the scopes whose task a run has scheduled as a unit, in order
UnitScopes(run) == [j \in 1..Len(run.units) |-> run.units[j].scope]

\* C21 (as claimed): one unit per entered scope, in both revisions.  For
\* every list of factories, two factories of the same name included, once
\* the two revisions are in their run phase they have entered the same
\* scopes and scheduled the same units, exactly one unit (task or
\* placeholder) per entered scope.
C21_OneUnitPerScope ==
  (demoRun.st = "run" /\ utilRun.st = "run")
     => /\ demoRun.entered = utilRun.entered
        /\ demoRun.units = utilRun.units
        /\ UnitScopes(demoRun) = demoRun.entered
        /\ UnitScopes(utilRun) = utilRun.entered

(***************************************************************************)
(* Claims about the producer/consumer run.                                 *)
(***************************************************************************)
\* C11 (as claimed): a consumer that observes with yield_immediately and
\* is back in its wait before each publish receives the absent marker and
\* then the values of the producer in their order, however the two units
\* were scheduled.
C11_AbsentThenCountdown ==
  (gen[Echo].yield_immediately /\ ~lagged)
     => IsPrefix(observed, <<NoValue>> \o prod.all)

\* C11 (amended): what such a consumer receives depends on the order of the
\* two plugins in the list.  When the consumer's unit is created first it
\* receives the absent marker and then the values in their order; when the
\* producer's unit is created first the first value is published before the
\* consumer registers, and the consumer receives the values in their order
\* with no absent marker before them.  In both cases nothing is missing once
\* the producer has finished and the consumer waits again.
C11_ObservedCountdown ==
  (gen[Echo].yield_immediately /\ ~lagged) =>
     LET expected == IF first = "consumer" THEN <<NoValue>> \o prod.all
                     ELSE prod.all
     IN  /\ IsPrefix(observed, expected)
         /\ (prod.st = "done" /\ ready = <<>> /\ cons = "blocked")
               => observed = expected

\* C11, its case: the consumer's unit was created first and the consumer has
\* received the absent marker and then 3, 2, 1, 0
C11_Witness ==
  /\ first = "consumer"
  /\ gen[Echo].yield_immediately /\ ~lagged
  /\ prod.st = "done"
  /\ observed = <<NoValue, 3, 2, 1, 0>>

TypeOK ==
  /\ DOMAIN objects \subseteq Keys
  /\ DOMAIN events \subseteq Keys
  /\ \A s \in Subs : gen[s].pc \in {"none", "created", "closed"} \cup Suspended
  /\ phase \in {"setup", "run", "teardown", "finished"}
====
